---- MODULE Spec2Model ----
(***************************************************************************)
(* Model of the task-tracking service in src/app.py: the validator         *)
(* (validate_task), the five Flask handlers and the SQLite table they      *)
(* share.  Text is a sequence of one-character strings, so that parsing    *)
(* (strptime) and SQLite's TEXT-affinity conversion are computed, not      *)
(* assumed.                                                                *)
(***************************************************************************)
EXTENDS Integers, Sequences, FiniteSets, TLC

\* ------------------------------------------------------------------------
\* JSON values of a request body
\* ------------------------------------------------------------------------

\* a JSON string
Str(s) == [kind |-> "str", s |-> s, n |-> 0]
\* a JSON number (integer)
Num(n) == [kind |-> "int", s |-> <<>>, n |-> n]
\* JSON null (Python None)
Null == [kind |-> "null", s |-> <<>>, n |-> 0]
\* a non-empty JSON array (Python list); n is its length
List(n) == [kind |-> "list", s |-> <<>>, n |-> n]

\* Python truthiness as used by "not data[field]" (app.py line 49)
Falsy(v) ==
    \/ v.kind = "null"
    \/ v.kind = "str" /\ v.s = <<>>
    \/ v.kind = "int" /\ v.n = 0
    \/ v.kind = "list" /\ v.n = 0

S_Low == <<"L", "o", "w">>
S_Medium == <<"M", "e", "d", "i", "u", "m">>
S_High == <<"H", "i", "g", "h">>
S_Pending == <<"P", "e", "n", "d", "i", "n", "g">>
S_InProgress == <<"I", "n", " ", "P", "r", "o", "g", "r", "e", "s", "s">>
S_Completed == <<"C", "o", "m", "p", "l", "e", "t", "e", "d">>

\* the lists of app.py lines 52 and 55 (and the CHECK constraints, lines 31-32)
Priorities == {S_Low, S_Medium, S_High}
Statuses == {S_Pending, S_InProgress, S_Completed}

\* required_fields, app.py line 46, in order
required_fields == <<"title", "priority", "status", "deadline">>

\* ------------------------------------------------------------------------
\* datetime.strptime(text, "%Y-%m-%d")
\* ------------------------------------------------------------------------

DigitVal ==
    ("0" :> 0) @@ ("1" :> 1) @@ ("2" :> 2) @@ ("3" :> 3) @@ ("4" :> 4) @@
    ("5" :> 5) @@ ("6" :> 6) @@ ("7" :> 7) @@ ("8" :> 8) @@ ("9" :> 9)

IsDigit(c) == c \in DOMAIN DigitVal

\* the text of a %m directive: 1[0-2] | 0[1-9] | [1-9]
IsMonthToken(t) ==
    \/ Len(t) = 2 /\ t[1] = "1" /\ t[2] \in {"0", "1", "2"}
    \/ Len(t) = 2 /\ t[1] = "0" /\ IsDigit(t[2]) /\ t[2] # "0"
    \/ Len(t) = 1 /\ IsDigit(t[1]) /\ t[1] # "0"

\* the text of a %d directive: 3[01] | [12]\d | 0[1-9] | [1-9] | " "[1-9]
IsDayToken(t) ==
    \/ Len(t) = 2 /\ t[1] = "3" /\ t[2] \in {"0", "1"}
    \/ Len(t) = 2 /\ t[1] \in {"1", "2"} /\ IsDigit(t[2])
    \/ Len(t) = 2 /\ t[1] \in {"0", " "} /\ IsDigit(t[2]) /\ t[2] # "0"
    \/ Len(t) = 1 /\ IsDigit(t[1]) /\ t[1] # "0"

\* int() of a token of digits (a leading space of %d is skipped)
RECURSIVE ToInt(_)
ToInt(t) ==
    IF t = <<>> THEN 0
    ELSE IF t[Len(t)] = " " THEN 0
    ELSE 10 * ToInt(SubSeq(t, 1, Len(t) - 1)) + DigitVal[t[Len(t)]]

IsLeap(y) == y % 4 = 0 /\ (y % 100 # 0 \/ y % 400 = 0)

\* DaysInMonth without the leap-year rule
DaysInMonthNoLeap(y, m) ==
    IF m = 2 THEN 28
    ELSE IF m \in {4, 6, 9, 11} THEN 30 ELSE 31

DaysInMonth(y, m) ==
    IF m = 2 THEN (IF IsLeap(y) THEN 29 ELSE 28)
    ELSE IF m \in {4, 6, 9, 11} THEN 30 ELSE 31

\* position of the "-" that ends the month token, or 0 when the text does
\* not match \d\d\d\d-<month>-
MonthEnd(t) ==
    IF Len(t) < 7 THEN 0
    ELSE IF ~(\A i \in 1..4 : IsDigit(t[i])) \/ t[5] # "-" THEN 0
    ELSE IF Len(t) >= 8 /\ IsMonthToken(SubSeq(t, 6, 7)) /\ t[8] = "-" THEN 8
    ELSE IF IsMonthToken(SubSeq(t, 6, 6)) /\ t[7] = "-" THEN 7
    ELSE 0

\* TRUE iff strptime(text, "%Y-%m-%d") returns a datetime, FALSE iff it
\* raises ValueError (no match, unconverted data, or a date out of range)
StrptimeOk(t) ==
    LET e == MonthEnd(t) IN
    IF e = 0 THEN FALSE
    ELSE LET y == ToInt(SubSeq(t, 1, 4))
             m == ToInt(SubSeq(t, 6, e - 1))
             dtok == SubSeq(t, e + 1, Len(t))
         IN  /\ IsDayToken(dtok)
             /\ y >= 1
             /\ ToInt(dtok) <= DaysInMonth(y, m)

\* ------------------------------------------------------------------------
\* validate_task
\* ------------------------------------------------------------------------

\* results of validate_task: None, an error message, or a raised exception
NoError == [raised |-> "", msg |-> "None"]
Message(m) == [raised |-> "", msg |-> m]
Raised(e) == [raised |-> e, msg |-> ""]

\* the loop of lines 48-50: index of the first required field that is
\* absent or falsy, 0 when there is none
FirstMissing(data) ==
    LET bad == {i \in 1..Len(required_fields) :
                   \/ required_fields[i] \notin DOMAIN data
                   \/ Falsy(data[required_fields[i]])}
    IN  IF bad = {} THEN 0 ELSE CHOOSE i \in bad : \A j \in bad : i <= j

\* validate_task without the deadline parse of lines 58-61
validate_task_no_parse(data) ==
    IF FirstMissing(data) # 0
    THEN Message(required_fields[FirstMissing(data)] \o " is required")
    ELSE IF ~(data["priority"].kind = "str" /\ data["priority"].s \in Priorities)
    THEN Message("Invalid priority")
    ELSE IF ~(data["status"].kind = "str" /\ data["status"].s \in Statuses)
    THEN Message("Invalid status")
    ELSE NoError

validate_task(data) ==
    IF FirstMissing(data) # 0
    THEN Message(required_fields[FirstMissing(data)] \o " is required")
    ELSE IF ~(data["priority"].kind = "str" /\ data["priority"].s \in Priorities)
    THEN Message("Invalid priority")
    ELSE IF ~(data["status"].kind = "str" /\ data["status"].s \in Statuses)
    THEN Message("Invalid status")
    ELSE IF data["deadline"].kind # "str"
    THEN Raised("TypeError")
    ELSE IF ~StrptimeOk(data["deadline"].s)
    THEN Message("Deadline must be YYYY-MM-DD")
    ELSE NoError

\* ------------------------------------------------------------------------
\* Bounds
\* ------------------------------------------------------------------------

\* the two request-serving workers of the HTTP server
Workers == {"w1", "w2"}
\* creates are accepted while fewer than MaxCreates ids have been assigned
MaxCreates == 2

\* ids a request may name in its path
PathIds == 1..MaxCreates

\* ------------------------------------------------------------------------
\* The tasks table (init_db) and SQLite's storage of a bound parameter
\* ------------------------------------------------------------------------

\* decimal text of a non-negative integer
RECURSIVE Digits(_)
Digits(n) ==
    LET d == CHOOSE c \in DOMAIN DigitVal : DigitVal[c] = n % 10
    IN  IF n < 10 THEN <<d>> ELSE Append(Digits(n \div 10), d)

\* text form of an integer, as SQLite renders it for a TEXT column
ToText(n) == IF n < 0 THEN <<"-">> \o Digits(0 - n) ELSE Digits(n)

\* sqlite3 can bind None, int and str; a list (or dict) is rejected with
\* ProgrammingError before the statement runs
Bindable(v) == v.kind \in {"null", "int", "str"}

\* the value a column of TEXT affinity (lines 29-34) holds after v is bound
\* to it: NULL stays NULL, text stays text, a number becomes its text form
TextAffinity(v) ==
    IF v.kind = "int" THEN Str(ToText(v.n)) ELSE v

\* data.get("description", "") (lines 89, 157)
GetDescription(data) ==
    IF "description" \in DOMAIN data THEN data["description"] ELSE Str(<<>>)

\* datetime.now().isoformat() (line 93) at clock value t; every read of
\* the clock finds it later than the read before
IsoFormat(t) == <<"T">> \o ToText(t)

\* the greatest of a finite set of naturals, 0 for the empty set
MaxOf(S) == IF S = {} THEN 0 ELSE CHOOSE x \in S : \A y \in S : y <= x

\* INTEGER PRIMARY KEY without AUTOINCREMENT: one more than the largest
\* rowid now in the table
RowidWithoutAutoincrement(tbl, sq) == MaxOf(DOMAIN tbl) + 1

\* INTEGER PRIMARY KEY AUTOINCREMENT (line 28): one more than the largest
\* rowid that has ever existed in the table (kept in sqlite_sequence)
NextRowid(tbl, sq) == MaxOf(DOMAIN tbl \cup {sq}) + 1

\* the table constraints of lines 29-32: title NOT NULL and the two CHECKs
\* (a CHECK passes on NULL)
ConstraintsHold(row) ==
    /\ row.title.kind # "null"
    /\ row.priority.kind = "null" \/ (row.priority.kind = "str" /\ row.priority.s \in Priorities)
    /\ row.status.kind = "null" \/ (row.status.kind = "str" /\ row.status.s \in Statuses)

\* the five columns both INSERT and UPDATE write (lines 85-94, 152-162)
BoundColumns(data) ==
    [title |-> TextAffinity(data["title"]),
     description |-> TextAffinity(GetDescription(data)),
     priority |-> TextAffinity(data["priority"]),
     status |-> TextAffinity(data["status"]),
     deadline |-> TextAffinity(data["deadline"])]

ParamsBindable(data) ==
    /\ Bindable(data["title"])
    /\ Bindable(GetDescription(data))
    /\ Bindable(data["priority"])
    /\ Bindable(data["status"])
    /\ Bindable(data["deadline"])

\* InsertedRow with data.get("description") in place of
\* data.get("description", "")
InsertedRowNoDefault(data, t) ==
    [title |-> BoundColumns(data).title,
     description |-> IF "description" \in DOMAIN data
                     THEN BoundColumns(data).description ELSE Null,
     priority |-> BoundColumns(data).priority,
     status |-> BoundColumns(data).status,
     deadline |-> BoundColumns(data).deadline,
     created_at |-> Str(IsoFormat(t))]

\* the row INSERT writes (lines 84-94)
InsertedRow(data, t) ==
    [title |-> BoundColumns(data).title,
     description |-> BoundColumns(data).description,
     priority |-> BoundColumns(data).priority,
     status |-> BoundColumns(data).status,
     deadline |-> BoundColumns(data).deadline,
     created_at |-> Str(IsoFormat(t))]

\* UpdatedRow of an UPDATE whose SET list lacks description
UpdatedRowKeepsDescription(old, data) ==
    [title |-> BoundColumns(data).title,
     description |-> old.description,
     priority |-> BoundColumns(data).priority,
     status |-> BoundColumns(data).status,
     deadline |-> BoundColumns(data).deadline,
     created_at |-> old.created_at]

\* the row UPDATE ... SET title=?, description=?, priority=?, status=?,
\* deadline=? leaves in place of old (lines 151-162)
UpdatedRow(old, data) ==
    [title |-> BoundColumns(data).title,
     description |-> BoundColumns(data).description,
     priority |-> BoundColumns(data).priority,
     status |-> BoundColumns(data).status,
     deadline |-> BoundColumns(data).deadline,
     created_at |-> old.created_at]

\* dict(task) of a fetched row (lines 115, 132)
RowDict(tbl, i) ==
    [id |-> i,
     title |-> tbl[i].title,
     description |-> tbl[i].description,
     priority |-> tbl[i].priority,
     status |-> tbl[i].status,
     deadline |-> tbl[i].deadline,
     created_at |-> tbl[i].created_at]

\* SELECT * FROM tasks: the rows in rowid order
RECURSIVE SelectAll(_, _)
SelectAll(tbl, ids) ==
    IF ids = {} THEN <<>>
    ELSE LET i == CHOOSE x \in ids : \A y \in ids : x <= y
         IN  <<RowDict(tbl, i)>> \o SelectAll(tbl, ids \ {i})

\* ------------------------------------------------------------------------
\* Requests and responses
\* ------------------------------------------------------------------------

\* request.get_json(): None, or a mapping
NoneBody == [isNone |-> TRUE, map |-> [f \in {} |-> Null]]
Mapping(m) == [isNone |-> FALSE, map |-> m]

\* "not data" (lines 71, 140): None and the empty mapping are falsy
NotData(body) == body.isNone \/ DOMAIN body.map = {}

Date_2025_01_01 == <<"2", "0", "2", "5", "-", "0", "1", "-", "0", "1">>
Date_2024_2_9 == <<"2", "0", "2", "4", "-", "2", "-", "9">>

B_A == Mapping([title |-> Str(<<"A">>), priority |-> Str(S_Low),
                status |-> Str(S_Pending), deadline |-> Str(Date_2025_01_01)])
B_Num == Mapping([title |-> Num(5), description |-> Str(<<"d">>),
                  priority |-> Str(S_High), status |-> Str(S_InProgress),
                  deadline |-> Str(Date_2024_2_9)])
B_List == Mapping([title |-> Str(<<"A">>), description |-> List(1),
                   priority |-> Str(S_Low), status |-> Str(S_Pending),
                   deadline |-> Str(Date_2025_01_01)])
B_Empty == Mapping([f \in {} |-> Null])
B_NumDeadline == Mapping([title |-> Str(<<"A">>), priority |-> Str(S_Low),
                          status |-> Str(S_Pending), deadline |-> Num(20250101)])

\* the request bodies the workers receive
Bodies == <<NoneBody, B_Empty, B_A, B_Num, B_List, B_NumDeadline>>

NoRequest == [op |-> "", task_id |-> 0, body |-> NoneBody]
Request(op, i, body) == [op |-> op, task_id |-> i, body |-> body]

\* jsonify({"error": text}), code   /   jsonify({"message": text}), code
NoResponse == [code |-> 0, key |-> "", text |-> "", rows |-> <<>>, raised |-> ""]
ErrorResponse(code, text) ==
    [code |-> code, key |-> "error", text |-> text, rows |-> <<>>, raised |-> ""]
MessageResponse(code, text) ==
    [code |-> code, key |-> "message", text |-> text, rows |-> <<>>, raised |-> ""]
\* jsonify(rows), 200
JsonResponse(rows) ==
    [code |-> 200, key |-> "json", text |-> "", rows |-> rows, raised |-> ""]
\* the handler returned nothing: exception exc left it
Propagated(exc) ==
    [code |-> 0, key |-> "", text |-> "", rows |-> <<>>, raised |-> exc]

\* ------------------------------------------------------------------------
\* State
\* ------------------------------------------------------------------------

VARIABLES
    tasks,      \* committed rows of table tasks: rowid -> row
    seq,        \* committed sqlite_sequence entry of tasks
    txn,        \* the open write transaction (it holds the database lock)
    assigned,   \* history: the ids INSERT has assigned, in order
    clock,      \* the wall clock: the number of datetime.now() reads so far
    pc,         \* per worker: position in the handler it runs
    req,        \* per worker: the request being (or last) handled
    resp,       \* per worker: what the handler returned
    conn,       \* per worker: the handler's connection is open
    rowcount,   \* per worker: cursor.rowcount of the handler's statement
    vdata,      \* the mapping a direct call of validate_task is given
    vresult     \* what that call returned

vars == <<tasks, seq, txn, assigned, clock, pc, req, resp, conn, rowcount, vdata, vresult>>

\* the variables of a direct call of validate_task
vvars == <<vdata, vresult>>

\* validate_task has not been called
NotRun == [raised |-> "", msg |-> ""]

EmptyTable == [i \in {} |-> Null]
NoTxn == [owner |-> "", tasks |-> EmptyTable, seq |-> 0]

\* init_db (lines 22-39) on a new database file: the table exists, empty
init_db ==
    /\ tasks = EmptyTable
    /\ seq = 0
    /\ txn = NoTxn

Init ==
    /\ init_db
    /\ assigned = <<>>
    /\ clock = 0
    /\ pc = [w \in Workers |-> "idle"]
    /\ req = [w \in Workers |-> NoRequest]
    /\ resp = [w \in Workers |-> NoResponse]
    /\ conn = [w \in Workers |-> FALSE]
    /\ rowcount = [w \in Workers |-> 0 - 1]
    /\ vdata = [f \in {} |-> Null]
    /\ vresult = NotRun

\* a worker is dispatched its next request when it is idle, the connection
\* of its previous request is gone, and no finished response is waiting to
\* be handed to its client
Free(w) ==
    /\ pc[w] = "idle"
    /\ ~conn[w]
    /\ \A v \in Workers : pc[v] # "done"

\* the handler of worker w returns (or is left by an exception) with r;
\* open tells whether its connection is still open at that point
Return(w, r, open) ==
    /\ pc' = [pc EXCEPT ![w] = "done"]
    /\ resp' = [resp EXCEPT ![w] = r]
    /\ conn' = [conn EXCEPT ![w] = open]
    /\ rowcount' = [rowcount EXCEPT ![w] = 0 - 1]

\* the handler of worker w has executed its statement, with rowcount n,
\* on an open connection, and has yet to commit
Executed(w, n) ==
    /\ pc' = [pc EXCEPT ![w] = "executed"]
    /\ resp' = [resp EXCEPT ![w] = NoResponse]
    /\ conn' = [conn EXCEPT ![w] = TRUE]
    /\ rowcount' = [rowcount EXCEPT ![w] = n]

\* creates that have assigned an id not yet committed
PendingCreates ==
    Cardinality({w \in Workers : req[w].op = "POST" /\ pc[w] = "executed"})

\* conn.commit() of the write transaction of worker w
Commit(w) ==
    /\ txn.owner = w
    /\ tasks' = txn.tasks
    /\ seq' = txn.seq
    /\ txn' = NoTxn

\* what a storage call can raise for reasons outside the request (file
\* unreachable, database locked beyond the timeout, I/O error)
StorageFaults == {"OperationalError"}

\* outcome of get_db_connection() (lines 16-19) followed by one statement:
\* "ok", or the exception and whether the connection was opened before it
StorageOutcomes(bindable, constraints) ==
    {[exc |-> e, open |-> o] : e \in StorageFaults, o \in BOOLEAN}
    \cup (IF ~bindable THEN {[exc |-> "ProgrammingError", open |-> TRUE]}
          ELSE IF ~constraints THEN {[exc |-> "IntegrityError", open |-> TRUE]}
          ELSE {[exc |-> "ok", open |-> TRUE]})

\* ------------------------------------------------------------------------
\* POST /tasks
\* ------------------------------------------------------------------------

\* lines 69-94 and, when the storage raises, 102-104
create_task_request(w, body) ==
    /\ Free(w)
    /\ req' = [req EXCEPT ![w] = Request("POST", 0, body)]
    /\ IF NotData(body)
       THEN /\ Return(w, ErrorResponse(400, "Request body must be valid JSON"), FALSE)
            /\ UNCHANGED <<txn, assigned, clock>>
       ELSE LET error == validate_task(body.map) IN
            IF error.raised # ""
            THEN Return(w, Propagated(error.raised), FALSE) /\ UNCHANGED <<txn, assigned, clock>>
            ELSE IF error # NoError
            THEN Return(w, ErrorResponse(400, error.msg), FALSE) /\ UNCHANGED <<txn, assigned, clock>>
            ELSE LET data == body.map
                     id == NextRowid(tasks, seq)
                     row == InsertedRow(data, clock)
                 IN
                 /\ seq + PendingCreates < MaxCreates
                 /\ \E o \in StorageOutcomes(ParamsBindable(data), ConstraintsHold(row)) :
                       IF o.exc = "ok"
                       THEN /\ txn.owner = ""
                            /\ txn' = [owner |-> w,
                                       tasks |-> [i \in DOMAIN tasks \cup {id} |->
                                                     IF i = id THEN row ELSE tasks[i]],
                                       seq |-> id]
                            /\ assigned' = Append(assigned, id)
                            /\ clock' = clock + 1
                            /\ Executed(w, 1)
                       ELSE /\ Return(w, ErrorResponse(500, "Internal server error"), o.open)
                            /\ UNCHANGED <<txn, assigned, clock>>
    /\ UNCHANGED <<tasks, seq>>
    /\ UNCHANGED vvars

\* lines 96-100: commit, close, 201
create_task_commit(w) ==
    /\ pc[w] = "executed" /\ req[w].op = "POST"
    /\ Commit(w)
    /\ Return(w, MessageResponse(201, "Task created"), FALSE)
    /\ UNCHANGED <<assigned, clock, req>>
    /\ UNCHANGED vvars

create_task(w) ==
    \/ \E b \in 1..Len(Bodies) : create_task_request(w, Bodies[b])
    \/ create_task_commit(w)

\* ------------------------------------------------------------------------
\* GET /tasks
\* ------------------------------------------------------------------------

\* lines 109-119
get_tasks(w) ==
    /\ Free(w)
    /\ req' = [req EXCEPT ![w] = Request("LIST", 0, NoneBody)]
    /\ \E o \in StorageOutcomes(TRUE, TRUE) :
          IF o.exc = "ok"
          THEN Return(w, JsonResponse(SelectAll(tasks, DOMAIN tasks)), FALSE)
          ELSE Return(w, ErrorResponse(500, "Internal server error"), o.open)
    /\ UNCHANGED <<tasks, seq, txn, assigned, clock>>
    /\ UNCHANGED vvars

\* ------------------------------------------------------------------------
\* GET /tasks/<task_id>
\* ------------------------------------------------------------------------

\* lines 126-132: what get_task returns for task_id on table tbl
get_task_result(tbl, task_id) ==
    IF task_id \notin DOMAIN tbl
    THEN ErrorResponse(404, "Task not found")
    ELSE JsonResponse(<<RowDict(tbl, task_id)>>)

\* lines 124-132; an exception leaves the handler (there is no try)
get_task(w, task_id) ==
    /\ Free(w)
    /\ req' = [req EXCEPT ![w] = Request("GET", task_id, NoneBody)]
    /\ \E o \in StorageOutcomes(TRUE, TRUE) :
          IF o.exc = "ok"
          THEN Return(w, get_task_result(tasks, task_id), FALSE)
          ELSE Return(w, Propagated(o.exc), o.open)
    /\ UNCHANGED <<tasks, seq, txn, assigned, clock>>
    /\ UNCHANGED vvars

\* ------------------------------------------------------------------------
\* PUT /tasks/<task_id>
\* ------------------------------------------------------------------------

\* lines 138-162; an exception leaves the handler (there is no try)
update_task_request(w, task_id, body) ==
    /\ Free(w)
    /\ req' = [req EXCEPT ![w] = Request("PUT", task_id, body)]
    /\ IF NotData(body)
       THEN /\ Return(w, ErrorResponse(400, "Request body must be valid JSON"), FALSE)
            /\ UNCHANGED txn
       ELSE LET error == validate_task(body.map) IN
            IF error.raised # ""
            THEN Return(w, Propagated(error.raised), FALSE) /\ UNCHANGED txn
            ELSE IF error # NoError
            THEN Return(w, ErrorResponse(400, error.msg), FALSE) /\ UNCHANGED txn
            ELSE LET data == body.map
                     hit == task_id \in DOMAIN tasks
                     constraints == hit => ConstraintsHold(UpdatedRow(tasks[task_id], data))
                 IN
                 \E o \in StorageOutcomes(ParamsBindable(data), constraints) :
                    IF o.exc = "ok"
                    THEN /\ txn.owner = ""
                         /\ txn' = [owner |-> w,
                                    tasks |-> [i \in DOMAIN tasks |->
                                                  IF i = task_id
                                                  THEN UpdatedRow(tasks[i], data)
                                                  ELSE tasks[i]],
                                    seq |-> seq]
                         /\ Executed(w, IF hit THEN 1 ELSE 0)
                    ELSE /\ Return(w, Propagated(o.exc), o.open)
                         /\ UNCHANGED txn
    /\ UNCHANGED <<tasks, seq, assigned, clock>>
    /\ UNCHANGED vvars

\* lines 164-172: commit, rowcount, close, 404 or 200
update_task_commit(w) ==
    /\ pc[w] = "executed" /\ req[w].op = "PUT"
    /\ Commit(w)
    /\ IF rowcount[w] = 0
       THEN Return(w, ErrorResponse(404, "Task not found"), FALSE)
       ELSE Return(w, MessageResponse(200, "Task updated"), FALSE)
    /\ UNCHANGED <<assigned, clock, req>>
    /\ UNCHANGED vvars

update_task(w) ==
    \/ \E i \in PathIds : \E b \in 1..Len(Bodies) : update_task_request(w, i, Bodies[b])
    \/ update_task_commit(w)

\* ------------------------------------------------------------------------
\* DELETE /tasks/<task_id>
\* ------------------------------------------------------------------------

\* lines 177-181; an exception leaves the handler (there is no try)
delete_task_request(w, task_id) ==
    /\ Free(w)
    /\ req' = [req EXCEPT ![w] = Request("DELETE", task_id, NoneBody)]
    /\ \E o \in StorageOutcomes(TRUE, TRUE) :
          IF o.exc = "ok"
          THEN /\ txn.owner = ""
               /\ txn' = [owner |-> w,
                          tasks |-> [i \in DOMAIN tasks \ {task_id} |-> tasks[i]],
                          seq |-> seq]
               /\ Executed(w, IF task_id \in DOMAIN tasks THEN 1 ELSE 0)
          ELSE /\ Return(w, Propagated(o.exc), o.open)
               /\ UNCHANGED txn
    /\ UNCHANGED <<tasks, seq, assigned, clock>>
    /\ UNCHANGED vvars

\* lines 182-190: commit, rowcount, close, 404 or 200
delete_task_commit(w) ==
    /\ pc[w] = "executed" /\ req[w].op = "DELETE"
    /\ Commit(w)
    /\ IF rowcount[w] = 0
       THEN Return(w, ErrorResponse(404, "Task not found"), FALSE)
       ELSE Return(w, MessageResponse(200, "Task deleted"), FALSE)
    /\ UNCHANGED <<assigned, clock, req>>
    /\ UNCHANGED vvars

delete_task(w) ==
    \/ \E i \in PathIds : delete_task_request(w, i)
    \/ delete_task_commit(w)

\* ------------------------------------------------------------------------
\* Environment
\* ------------------------------------------------------------------------

\* a connection the handler left open is closed when the interpreter
\* reclaims the connection object, at some point after the handler ended
Finalize(w) ==
    /\ pc[w] \in {"done", "idle"} /\ conn[w]
    /\ conn' = [conn EXCEPT ![w] = FALSE]
    /\ UNCHANGED <<tasks, seq, txn, assigned, clock, pc, req, resp, rowcount>>
    /\ UNCHANGED vvars

\* the server hands the response of worker w to the client; the worker is
\* idle again
Deliver(w) ==
    /\ pc[w] = "done"
    /\ pc' = [pc EXCEPT ![w] = "idle"]
    /\ req' = [req EXCEPT ![w] = NoRequest]
    /\ resp' = [resp EXCEPT ![w] = NoResponse]
    /\ UNCHANGED <<tasks, seq, txn, assigned, clock, conn, rowcount>>
    /\ UNCHANGED vvars

Next ==
    \/ \E w \in Workers : create_task(w)
    \/ \E w \in Workers : get_tasks(w)
    \/ \E w \in Workers : \E i \in PathIds : get_task(w, i)
    \/ \E w \in Workers : update_task(w)
    \/ \E w \in Workers : delete_task(w)
    \/ \E w \in Workers : Finalize(w)
    \/ \E w \in Workers : Deliver(w)

Spec == Init /\ [][Next]_vars

\* ------------------------------------------------------------------------
\* validate_task called directly on a bounded set of mappings
\* ------------------------------------------------------------------------

\* marks a key the mapping does not have
Absent == [kind |-> "absent", s |-> <<>>, n |-> 0]

TitleInputs ==
    {Absent, Null, Str(<<>>), Str(<<"A">>), Num(0), Num(5), List(1)}

PriorityInputs ==
    {Absent, Str(<<>>), Str(S_Low), Str(S_Medium), Str(S_High),
     Str(<<"l", "o", "w">>), Str(<<"U">>), Num(5)}

StatusInputs ==
    {Absent, Null, Str(<<>>), Str(S_Pending), Str(S_InProgress), Str(S_Completed),
     Str(<<"D", "o", "n", "e">>)}

Date_2024_13_01 == <<"2", "0", "2", "4", "-", "1", "3", "-", "0", "1">>
Date_01_01_2024 == <<"0", "1", "-", "0", "1", "-", "2", "0", "2", "4">>
Date_2024_02_29 == <<"2", "0", "2", "4", "-", "0", "2", "-", "2", "9">>
Date_2023_02_29 == <<"2", "0", "2", "3", "-", "0", "2", "-", "2", "9">>
Date_1900_02_29 == <<"1", "9", "0", "0", "-", "0", "2", "-", "2", "9">>
Date_2000_02_29 == <<"2", "0", "0", "0", "-", "0", "2", "-", "2", "9">>
Date_2024_04_31 == <<"2", "0", "2", "4", "-", "0", "4", "-", "3", "1">>
Date_2024_00_10 == <<"2", "0", "2", "4", "-", "0", "0", "-", "1", "0">>
Date_2024_01_00 == <<"2", "0", "2", "4", "-", "0", "1", "-", "0", "0">>
Date_2024_01_32 == <<"2", "0", "2", "4", "-", "0", "1", "-", "3", "2">>
Date_0000_01_01 == <<"0", "0", "0", "0", "-", "0", "1", "-", "0", "1">>
Date_Trailing == Date_2024_02_29 \o <<" ">>
Date_Slashes == <<"2", "0", "2", "4", "/", "0", "2", "/", "2", "9">>

DeadlineInputs ==
    {Absent, Null, Str(<<>>), Num(20250101), List(1),
     Str(Date_2025_01_01), Str(Date_2024_2_9), Str(Date_2024_13_01),
     Str(Date_01_01_2024), Str(Date_2024_02_29), Str(Date_2023_02_29),
     Str(Date_1900_02_29), Str(Date_2000_02_29), Str(Date_2024_04_31),
     Str(Date_2024_00_10), Str(Date_2024_01_00), Str(Date_2024_01_32),
     Str(Date_0000_01_01), Str(Date_Trailing), Str(Date_Slashes)}

DescriptionInputs == {Absent, Null, Str(<<"d">>), Num(5), List(1)}

\* the mapping with the given values, a key being left out when its value
\* is Absent
MakeMapping(t, p, s, d, ds) ==
    LET all == [title |-> t, priority |-> p, status |-> s, deadline |-> d,
                description |-> ds]
    IN  [f \in {g \in DOMAIN all : all[g] # Absent} |-> all[f]]

InitValidator ==
    /\ init_db
    /\ assigned = <<>>
    /\ clock = 0
    /\ pc = [w \in Workers |-> "idle"]
    /\ req = [w \in Workers |-> NoRequest]
    /\ resp = [w \in Workers |-> NoResponse]
    /\ conn = [w \in Workers |-> FALSE]
    /\ rowcount = [w \in Workers |-> 0 - 1]
    /\ \E t \in TitleInputs, p \in PriorityInputs, s \in StatusInputs,
          d \in DeadlineInputs, ds \in DescriptionInputs :
          vdata = MakeMapping(t, p, s, d, ds)
    /\ vresult = NotRun

\* error = validate_task(data) (lines 74, 143)
CallValidate ==
    /\ vresult = NotRun
    /\ vresult' = validate_task(vdata)
    /\ UNCHANGED <<tasks, seq, txn, assigned, clock, pc, req, resp, conn, rowcount, vdata>>

NextValidator == CallValidate

SpecValidator == InitValidator /\ [][NextValidator]_vars

\* ------------------------------------------------------------------------
\* Properties
\* ------------------------------------------------------------------------

\* the ids of a sequence of ids
Range(q) == {q[i] : i \in 1..Len(q)}

\* C1: no two stored tasks have the same id, every create assigns an id
\* strictly greater than every id assigned before it, and so the id of a
\* deleted task (the highest one included) is never assigned again
C1_UniqueIncreasingIds ==
    /\ \A i, j \in 1..Len(assigned) : i < j => assigned[i] < assigned[j]
    /\ DOMAIN tasks \subseteq Range(assigned)
    /\ LET l == SelectAll(tasks, DOMAIN tasks)
       IN  \A i, j \in 1..Len(l) : i # j => l[i].id # l[j].id

\* a create has just answered 201 with id 2 after the task with id 1, the
\* highest id at that time, was deleted
C1_Witness ==
    \E w \in Workers :
        /\ pc[w] = "done" /\ req[w].op = "POST" /\ resp[w].code = 201
        /\ assigned = <<1, 2>>
        /\ DOMAIN tasks = {2}

\* worker w takes the step that commits a successful update
UpdateSucceeds(w) ==
    /\ pc[w] = "executed" /\ req[w].op = "PUT"
    /\ pc'[w] = "done" /\ resp'[w].code = 200

\* the frame of an update of id: id and created_at of the task, the other
\* tasks and the number of tasks stay as they were
UpdateFrame(id) ==
    /\ id \in DOMAIN tasks /\ id \in DOMAIN tasks'
    /\ tasks'[id].created_at = tasks[id].created_at
    /\ DOMAIN tasks' = DOMAIN tasks
    /\ \A j \in DOMAIN tasks \ {id} : tasks'[j] = tasks[j]

\* description of the request, the empty string when it has none
RequestedDescription(data) ==
    IF "description" \in DOMAIN data THEN data["description"] ELSE Str(<<>>)

\* C2 as stated: a successful update replaces the five fields with the
\* request's values and leaves id, created_at and every other task alone
C2_Original ==
    [][\A w \in Workers : UpdateSucceeds(w) =>
          LET id == req[w].task_id
              data == req[w].body.map
          IN  /\ UpdateFrame(id)
              /\ tasks'[id].title = data["title"]
              /\ tasks'[id].description = RequestedDescription(data)
              /\ tasks'[id].priority = data["priority"]
              /\ tasks'[id].status = data["status"]
              /\ tasks'[id].deadline = data["deadline"]]_vars

\* column value c is request value v as a TEXT column holds it: text and
\* null as they are, a number as the decimal text that reads back as it
HeldAsText(v, c) ==
    \/ v.kind \in {"str", "null"} /\ c = v
    \/ /\ v.kind = "int" /\ v.n >= 0
       /\ c.kind = "str" /\ c.s # <<>>
       /\ \A i \in 1..Len(c.s) : IsDigit(c.s[i])
       /\ ToInt(c.s) = v.n

\* C2 as amended: a successful update replaces the five fields with the
\* request's values as a TEXT column holds them (a number becomes its
\* decimal text) and leaves id, created_at and every other task alone
C2_UpdateReplacesMutableFields ==
    [][\A w \in Workers : UpdateSucceeds(w) =>
          LET id == req[w].task_id
              data == req[w].body.map
          IN  /\ UpdateFrame(id)
              /\ HeldAsText(data["title"], tasks'[id].title)
              /\ HeldAsText(RequestedDescription(data), tasks'[id].description)
              /\ HeldAsText(data["priority"], tasks'[id].priority)
              /\ HeldAsText(data["status"], tasks'[id].status)
              /\ HeldAsText(data["deadline"], tasks'[id].deadline)]_vars

\* an update with the numeric title 5 has answered 200 while a second task
\* is stored; the task now has the title "5"
C2_Witness ==
    \E w \in Workers :
        /\ pc[w] = "done" /\ req[w].op = "PUT" /\ resp[w].code = 200
        /\ req[w].body = B_Num
        /\ req[w].task_id \in DOMAIN tasks
        /\ tasks[req[w].task_id].title = Str(<<"5">>)
        /\ Cardinality(DOMAIN tasks) = 2

\* the result the ordered rules of the validator give for a mapping: the
\* first absent or falsy field of title, priority, status, deadline, then
\* the priority, the status, then the deadline format
RuleResult(data) ==
    LET fields == <<"title", "priority", "status", "deadline">>
        missing == {i \in 1..4 : fields[i] \notin DOMAIN data \/ Falsy(data[fields[i]])}
    IN  IF missing # {}
        THEN Message(fields[CHOOSE i \in missing : \A j \in missing : i <= j]
                     \o " is required")
        ELSE IF data["priority"] \notin {Str(S_Low), Str(S_Medium), Str(S_High)}
        THEN Message("Invalid priority")
        ELSE IF data["status"] \notin {Str(S_Pending), Str(S_InProgress), Str(S_Completed)}
        THEN Message("Invalid status")
        ELSE IF ~(data["deadline"].kind = "str" /\ StrptimeOk(data["deadline"].s))
        THEN Message("Deadline must be YYYY-MM-DD")
        ELSE NoError

\* the mapping without its description
WithoutDescription(data) ==
    [f \in DOMAIN data \ {"description"} |-> data[f]]

\* C3: validate_task returns the message of the first failing rule, no
\* error exactly when no rule fails, whatever the description is; without
\* a title and with an invalid priority the message is "title is required"
C3_FirstFailingRule ==
    vresult # NotRun =>
        /\ vresult = RuleResult(vdata)
        /\ vresult = validate_task(WithoutDescription(vdata))
        /\ ("title" \notin DOMAIN vdata /\ "priority" \in DOMAIN vdata
              /\ vdata["priority"] = Str(<<"U">>))
           => vresult = Message("title is required")

\* title, priority and status of the mapping pass, and it has a deadline
ValidButDeadline(data) ==
    /\ {"title", "priority", "status", "deadline"} \subseteq DOMAIN data
    /\ ~Falsy(data["title"])
    /\ data["priority"] \in {Str(S_Low), Str(S_Medium), Str(S_High)}
    /\ data["status"] \in {Str(S_Pending), Str(S_InProgress), Str(S_Completed)}

\* C4 as stated: "2024-13-01", "01-01-2024" and "" fail with the deadline
\* format message, "2024-02-29" passes
C4_Original ==
    (vresult # NotRun /\ ValidButDeadline(vdata)) =>
        /\ vdata["deadline"] \in {Str(Date_2024_13_01), Str(Date_01_01_2024), Str(<<>>)}
           => vresult = Message("Deadline must be YYYY-MM-DD")
        /\ vdata["deadline"] = Str(Date_2024_02_29) => vresult = NoError

\* C4 as amended: "2024-13-01" and "01-01-2024" fail with the deadline
\* format message, "" fails with "deadline is required", "2024-02-29"
\* passes
C4_DeadlineExamples ==
    (vresult # NotRun /\ ValidButDeadline(vdata)) =>
        /\ vdata["deadline"] \in {Str(Date_2024_13_01), Str(Date_01_01_2024)}
           => vresult = Message("Deadline must be YYYY-MM-DD")
        /\ vdata["deadline"] = Str(<<>>) => vresult = Message("deadline is required")
        /\ vdata["deadline"] = Str(Date_2024_02_29) => vresult = NoError

\* validate_task has run on an otherwise valid mapping whose deadline is ""
C4_Witness ==
    /\ vresult # NotRun
    /\ ValidButDeadline(vdata)
    /\ vdata["deadline"] = Str(<<>>)

\* worker w takes the step that commits a create
CreateSucceeds(w) ==
    /\ pc[w] = "executed" /\ req[w].op = "POST"
    /\ pc'[w] = "done" /\ resp'[w].code = 201

\* the id a response gives the caller, 0 when it gives none
ReturnedId(r) == IF r.key = "json" /\ r.rows # <<>> THEN r.rows[1].id ELSE 0

\* C5 as stated: create returns the new id, and get_task on the returned id
\* returns the input's five fields with a store-assigned id and created_at
C5_Original ==
    [][\A w \in Workers : CreateSucceeds(w) =>
          LET id == ReturnedId(resp'[w])
              data == req[w].body.map
              got == get_task_result(tasks', id)
          IN  /\ id # 0
              /\ got.code = 200
              /\ got.rows[1].id = id
              /\ got.rows[1].title = data["title"]
              /\ got.rows[1].description = RequestedDescription(data)
              /\ got.rows[1].priority = data["priority"]
              /\ got.rows[1].status = data["status"]
              /\ got.rows[1].deadline = data["deadline"]
              /\ got.rows[1].created_at.kind = "str"
              /\ got.rows[1].created_at.s # <<>>
              /\ Len(assigned) = 1 => id = 1]_vars

\* C5 as amended: a create that answers 201 returns the message only, no
\* id; get_task on the id the store assigned to it returns the input's
\* five fields as a TEXT column holds them, with that id and a non-empty
\* created_at; the first task of a new store has id 1
C5_CreateThenGet ==
    [][\A w \in Workers : CreateSucceeds(w) =>
          LET id == assigned[Len(assigned)]
              data == req[w].body.map
              got == get_task_result(tasks', id)
          IN  /\ resp'[w] = MessageResponse(201, "Task created")
              /\ ReturnedId(resp'[w]) = 0
              /\ id >= 1
              /\ got.code = 200
              /\ got.rows[1].id = id
              /\ HeldAsText(data["title"], got.rows[1].title)
              /\ HeldAsText(RequestedDescription(data), got.rows[1].description)
              /\ HeldAsText(data["priority"], got.rows[1].priority)
              /\ HeldAsText(data["status"], got.rows[1].status)
              /\ HeldAsText(data["deadline"], got.rows[1].deadline)
              /\ got.rows[1].created_at.kind = "str"
              /\ got.rows[1].created_at.s # <<>>
              /\ Len(assigned) = 1 => id = 1]_vars

\* the first create of a new store, without description, has answered 201
\* and task 1 is stored with the empty description
C5_Witness ==
    \E w \in Workers :
        /\ pc[w] = "done" /\ req[w].op = "POST" /\ resp[w].code = 201
        /\ req[w].body = B_A
        /\ assigned = <<1>>
        /\ 1 \in DOMAIN tasks
        /\ tasks[1].description = Str(<<>>)

\* C6: an update with a valid body, or a delete, of an id with no row
\* answers 404 and leaves the table as it is, every time, without a
\* storage error (faults of the storage engine itself set aside)
C6_Original ==
    [][\A w \in Workers :
          /\ (/\ pc[w] = "idle" /\ pc'[w] # "idle"
              /\ req'[w].op \in {"PUT", "DELETE"}
              /\ req'[w].task_id \notin DOMAIN tasks
              /\ req'[w].op = "PUT" =>
                    (~NotData(req'[w].body) /\ validate_task(req'[w].body.map) = NoError)
              /\ resp'[w].raised \notin StorageFaults)
             => (pc'[w] = "executed" /\ rowcount'[w] = 0 /\ txn'.tasks = tasks)
          /\ (/\ pc[w] = "executed" /\ pc'[w] = "done"
              /\ req[w].op \in {"PUT", "DELETE"}
              /\ rowcount[w] = 0)
             => (resp'[w] = ErrorResponse(404, "Task not found") /\ tasks' = tasks)]_vars

\* a stored row meets the data model
TaskValid(row) ==
    /\ row.title.kind = "str" /\ row.title.s # <<>>
    /\ row.priority.kind = "str" /\ row.priority.s \in {S_Low, S_Medium, S_High}
    /\ row.status.kind = "str" /\ row.status.s \in {S_Pending, S_InProgress, S_Completed}
    /\ row.deadline.kind = "str" /\ StrptimeOk(row.deadline.s)

StorageExceptions == StorageFaults \cup {"ProgrammingError", "IntegrityError"}

\* C8: no storage exception leaves a handler (each is answered with the
\* generic 500 instead)
C8_Original ==
    \A w \in Workers : pc[w] = "done" => resp[w].raised \notin StorageExceptions

\* C9: a create or update whose body is a mapping that breaks a rule of
\* the validator answers 400 with the message of the first broken rule
\* and leaves the store as it is
C9_Original ==
    [][\A w \in Workers :
          (/\ pc[w] = "idle" /\ pc'[w] # "idle"
           /\ req'[w].op \in {"POST", "PUT"}
           /\ ~req'[w].body.isNone
           /\ RuleResult(req'[w].body.map) # NoError)
          => /\ resp'[w] = ErrorResponse(400, RuleResult(req'[w].body.map).msg)
             /\ UNCHANGED <<tasks, seq, txn>>]_vars

\* C10: a handler that has returned, or been left by an exception, has
\* closed its connection; with no request in progress none is open
C10_Original ==
    \A w \in Workers : pc[w] # "executed" => ~conn[w]

====
